---- MODULE Spec2Model ----
(***************************************************************************)
(* Model of the tool-augmented conversation loop of the "Full LLM Example" *)
(* (src/unnamed/part_002, function main and its helpers).                  *)
(*                                                                         *)
(* Texts are sequences of tokens.  A token is a piece of text that the two *)
(* regular expressions of main and JSON.parse never split:                 *)
(*   "FO"  the literal  ```json\n          "FC"  the literal  \n```        *)
(*   "{" "}" ","        the JSON punctuation                               *)
(*   "tool_name:" ...   a quoted member key with its colon (KeyTokens)     *)
(*   "5"                a JSON number (NumTokens)                          *)
(*   "'svc.echo'" ...   a quoted JSON string (StrTokens)                   *)
(*   any other token is prose without braces.                              *)
(***************************************************************************)
EXTENDS Integers, Sequences, FiniteSets, TLC

\* ------------------------------------------------------------------ bounds
MaxTurns == 2

\* Longest reply, in pieces, of the specification that draws the replies.
MaxPieces == 3

\* ------------------------------------------------------- sequence helpers
SubText(s, i, j) == [k \in 1..(j - i + 1) |-> s[i + k - 1]]

Min(S) == CHOOSE x \in S : \A y \in S : x <= y

Max(S) == CHOOSE x \in S : \A y \in S : x >= y

\* ------------------------------------------------------------- JSON.parse
KeyTokens == {"tool_name:", "arguments:", "note:", "received:"}

NumTokens == {"5"}

StrTokens == {"'svc.echo'", "'hi'"}

\* JSON values: <<"num", token>>, <<"str", token>>, <<"obj", members>> where
\* members is the sequence of <<key, value>> pairs in source order.
NoParse == [ok |-> FALSE, next |-> 0, val |-> <<"none">>]

RECURSIVE ParseValue(_, _)
RECURSIVE ParseMembers(_, _, _)

\* One member (key, value) at position i of s, then "," member or "}".
ParseMembers(s, i, acc) ==
  IF i > Len(s) \/ s[i] \notin KeyTokens THEN NoParse
  ELSE LET v == ParseValue(s, i + 1)
       IN  IF ~v.ok \/ v.next > Len(s) THEN NoParse
           ELSE LET members == Append(acc, <<s[i], v.val>>)
                IN  IF s[v.next] = "}" THEN [ok |-> TRUE, next |-> v.next + 1, val |-> <<"obj", members>>]
                    ELSE IF s[v.next] = "," THEN ParseMembers(s, v.next + 1, members)
                    ELSE NoParse

\* A JSON value starting at position i of s.
ParseValue(s, i) ==
  IF i > Len(s) THEN NoParse
  ELSE IF s[i] \in NumTokens THEN [ok |-> TRUE, next |-> i + 1, val |-> <<"num", s[i]>>]
  ELSE IF s[i] \in StrTokens THEN [ok |-> TRUE, next |-> i + 1, val |-> <<"str", s[i]>>]
  ELSE IF s[i] = "{" THEN
         IF i + 1 <= Len(s) /\ s[i + 1] = "}"
         THEN [ok |-> TRUE, next |-> i + 2, val |-> <<"obj", <<>>>>]
         ELSE ParseMembers(s, i + 1, <<>>)
  ELSE NoParse

\* JSON.parse(jsonString): the whole string must be one JSON value; a failure
\* is the SyntaxError that main catches.
JSONparse(s) ==
  LET r == ParseValue(s, 1)
  IN  IF r.ok /\ r.next = Len(s) + 1 THEN [ok |-> TRUE, val |-> r.val]
      ELSE [ok |-> FALSE, val |-> <<"none">>]

\* key in obj (the JavaScript "in" operator on a parsed object).
HasKey(obj, key) == \E k \in 1..Len(obj[2]) : obj[2][k][1] = key

\* obj.key: JSON.parse keeps the last of duplicate members.
GetKey(obj, key) ==
  LET k == Max({j \in 1..Len(obj[2]) : obj[2][j][1] = key})
  IN  obj[2][k][2]

\* ---------------------------------------------------- the two regex matches
NoMatch == [found |-> FALSE, group |-> <<>>]

\* assistantResponse.match(/```json\n({.*?})\n```/s): leftmost start, then the
\* shortest body.
MatchFenced(text) ==
  LET Close(i) == {j \in (i + 3)..Len(text) : text[j - 1] = "}" /\ text[j] = "FC"}
      Starts == {i \in 1..(Len(text) - 1) :
                   text[i] = "FO" /\ text[i + 1] = "{" /\ Close(i) # {}}
  IN  IF Starts = {} THEN NoMatch
      ELSE LET i == Min(Starts)
               j == Min(Close(i))
           IN  [found |-> TRUE, group |-> SubText(text, i + 1, j - 1)]

\* assistantResponse.match(/({.*})/s): leftmost "{", then the longest body, so
\* the group runs from the first "{" to the last "}".
MatchBraces(text) ==
  LET Opens == {i \in 1..Len(text) : text[i] = "{"}
      Closes == {j \in 1..Len(text) : text[j] = "}"}
  IN  IF Opens = {} \/ Closes = {} \/ Max(Closes) < Min(Opens) THEN NoMatch
      ELSE [found |-> TRUE, group |-> SubText(text, Min(Opens), Max(Closes))]

\* jsonMatch = fenced match || brace match.
JsonMatch(text) ==
  IF MatchFenced(text).found THEN MatchFenced(text) ELSE MatchBraces(text)

\* Lines 152-156: the directive main extracts from the reply, if any.
NoDirective == [isDirective |-> FALSE, toolName |-> <<"none">>, arguments |-> <<"none">>]

\* Variant of Interpret: the test of line 156 left out, any parsed object is
\* taken as a tool call.
InterpretAnyObject(text) ==
  LET m == JsonMatch(text)
  IN  IF ~m.found THEN NoDirective
      ELSE LET p == JSONparse(m.group)
           IN  IF ~p.ok THEN NoDirective
               ELSE [isDirective |-> TRUE,
                     toolName |-> IF HasKey(p.val, "tool_name:")
                                  THEN GetKey(p.val, "tool_name:") ELSE <<"undefined">>,
                     arguments |-> IF HasKey(p.val, "arguments:")
                                   THEN GetKey(p.val, "arguments:") ELSE <<"undefined">>]

Interpret(text) ==
  LET m == JsonMatch(text)
  IN  IF ~m.found THEN NoDirective
      ELSE LET p == JSONparse(m.group)
           IN  IF ~p.ok THEN NoDirective
               ELSE IF p.val[1] = "obj" /\ HasKey(p.val, "tool_name:") /\ HasKey(p.val, "arguments:")
                    THEN [isDirective |-> TRUE,
                          toolName |-> GetKey(p.val, "tool_name:"),
                          arguments |-> GetKey(p.val, "arguments:")]
                    ELSE NoDirective

\* --------------------------------------------------------- JSON.stringify
\* Values a tool can return besides JSON values: <<"undefined">> (stringify
\* returns undefined) and <<"circular">> (stringify throws a TypeError).
RECURSIVE StringifyValue(_)
RECURSIVE StringifyMembers(_, _)

StringifyMembers(members, k) ==
  IF k > Len(members) THEN <<>>
  ELSE (IF k > 1 THEN <<",">> ELSE <<>>)
       \o <<members[k][1]>> \o StringifyValue(members[k][2])
       \o StringifyMembers(members, k + 1)

StringifyValue(v) ==
  IF v[1] = "obj" THEN <<"{">> \o StringifyMembers(v[2], 1) \o <<"}">>
  ELSE <<v[2]>>

CircularMessage == "Converting circular structure to JSON"

\* Variant of JSONstringify: the value is serialized inside a wrapper object.
JSONstringifyWrapped(v) ==
  IF v[1] = "circular" THEN [threw |-> TRUE, text |-> <<>>, message |-> CircularMessage]
  ELSE IF v[1] = "undefined" THEN [threw |-> FALSE, text |-> <<"undefined">>, message |-> ""]
  ELSE [threw |-> FALSE, text |-> <<"{", "note:">> \o StringifyValue(v) \o <<"}">>, message |-> ""]

\* JSON.stringify(result)
JSONstringify(v) ==
  IF v[1] = "circular" THEN [threw |-> TRUE, text |-> <<>>, message |-> CircularMessage]
  ELSE IF v[1] = "undefined" THEN [threw |-> FALSE, text |-> <<"undefined">>, message |-> ""]
  ELSE [threw |-> FALSE, text |-> StringifyValue(v), message |-> ""]

\* `${toolName}`: string coercion of the parsed tool_name value.
ToStr(v) ==
  IF v[1] = "str" THEN (IF v[2] = "'svc.echo'" THEN "svc.echo" ELSE "hi")
  ELSE IF v[1] = "num" THEN v[2]
  ELSE "[object Object]"

\* ------------------------------------------------------ inputs of the model
\* What the user can type at the prompt.
Inputs == {"hello", "weather", "exit", "QUIT"}

\* userPrompt.toLowerCase()
ToLowerCase(str) == IF str = "QUIT" THEN "quit" ELSE str

\* What search_tools can return.
ToolLists == {<<>>, <<"svc.echo">>}

SearchErrors == {"search failed"}

BareDirective == <<"{", "tool_name:", "'svc.echo'", ",", "arguments:", "{", "note:", "'hi'", "}", "}">>

FencedDirective == <<"Calling:", "FO", "{", "tool_name:", "'hi'", ",", "arguments:", "{", "}", "}", "FC">>

LooseDirective == <<"{", "arguments:", "5", ",", "tool_name:", "5", "}">>

NoArguments == <<"{", "tool_name:", "'svc.echo'", "}">>

TrailingBrace == <<"{", "tool_name:", "'svc.echo'", ",", "arguments:", "{", "}", "}", "done", "}">>

PlainReply == <<"Hello!">>

Null == <<"null-content">>

\* message.content of the first choice, for either gateway call.
FirstContents == {Null, PlainReply, NoArguments, TrailingBrace,
                  BareDirective, FencedDirective, LooseDirective}

FinalContents == {Null, PlainReply}

GatewayErrors == {"ECONNRESET"}

EchoResult == <<"obj", << <<"received:", <<"str", "'hi'">> >> >> >>

\* What call_tool can resolve to, and the messages it can reject with.
ToolValues == {EchoResult, <<"undefined">>, <<"circular">>}

ToolErrors == {"timeout"}

\* ---------------------------------------------------------------- messages
Msg(role, content) == [role |-> role, content |-> content]

\* formatToolsForPrompt: JSON.stringify(tools, null, 2)
formatToolsForPrompt(tools) == <<"[">> \o tools \o <<"]">>

\* Lines 133-137
SystemPrompt(tools) == <<"You are a helpful assistant...">> \o formatToolsForPrompt(tools)

\* Variant of getOpenAIResponse: String(content) instead of content || ''.
getOpenAIResponseString(content) == IF content = Null THEN <<"null">> ELSE content

\* response.choices[0].message.content || ''
getOpenAIResponse(content) == IF content = Null THEN <<>> ELSE content

\* `Error calling ${toolName}: ${e.message}`
ErrorMessage(toolName, reason) == <<"Error calling ", ToStr(toolName), ": ", reason>>

\* `Tool output: ${toolOutput}`
ToolOutputContent(toolOutput) == <<"Tool output: ">> \o toolOutput

\* ------------------------------------------------------------------- state
VARIABLES
  pc,                   \* where main is: the await it is suspended at
  conversationHistory,  \* line 109
  userPrompt,           \* line 114
  systemPrompt,         \* line 133
  messages,             \* line 139, the list passed to the first query
  assistantResponse,    \* line 146
  toolName,             \* line 157
  arguments_,           \* line 158
  toolOutput,           \* line 163
  followUpMessages,     \* line 181, the list passed to the re-query
  answer,               \* what the turn printed: the assistant text or the error
  histBefore,           \* history when the latest turn began
  calls,                \* collaborator calls made by the latest turn, in order
  discovery,            \* how search_tools ended in the latest turn
  toolOutcome,          \* how call_tool and the serialization ended in that turn
  gateway,              \* how the latest gateway call of that turn ended
  turns,                \* turns started
  nTool,                \* turns that ended with the re-query's reply
  nPlain,               \* turns that ended with a reply holding no directive
  nAbsorbed             \* turns whose re-query was rejected

locals == <<userPrompt, systemPrompt, messages, assistantResponse, toolName,
            arguments_, toolOutput, followUpMessages>>

ghosts == <<histBefore, calls, discovery, toolOutcome, gateway, turns, nTool, nPlain, nAbsorbed>>

vars == <<pc, conversationHistory, locals, answer, ghosts>>

NoValue == <<"none">>

NoAnswer == [kind |-> "none", text |-> <<>>]

NoCall == [state |-> "none", content |-> NoValue, error |-> ""]

Resolved(content) == [state |-> "resolved", content |-> content, error |-> ""]

Rejected(err) == [state |-> "rejected", content |-> NoValue, error |-> err]

NoTool == [kind |-> "none", reason |-> "", value |-> NoValue]

\* The loop body's block-scoped variables do not exist between iterations.
OutOfScope ==
  /\ userPrompt' = ""
  /\ systemPrompt' = <<>>
  /\ messages' = <<>>
  /\ assistantResponse' = <<>>
  /\ toolName' = NoValue
  /\ arguments_' = NoValue
  /\ toolOutput' = <<>>
  /\ followUpMessages' = <<>>

Init ==
  /\ pc = "AWAITING_INPUT"
  /\ conversationHistory = <<>>
  /\ userPrompt = ""
  /\ systemPrompt = <<>>
  /\ messages = <<>>
  /\ assistantResponse = <<>>
  /\ toolName = NoValue
  /\ arguments_ = NoValue
  /\ toolOutput = <<>>
  /\ followUpMessages = <<>>
  /\ answer = NoAnswer
  /\ histBefore = <<>>
  /\ calls = <<>>
  /\ discovery = NoCall
  /\ toolOutcome = NoTool
  /\ gateway = NoCall
  /\ turns = 0
  /\ nTool = 0
  /\ nPlain = 0
  /\ nAbsorbed = 0

\* ------------------------------------------------------- pieces of the loop
\* Variant of IsExit: the comparison made without toLowerCase.
IsExitCaseSensitive(input) == input = "exit" \/ input = "quit"

\* Line 115
IsExit(input) == ToLowerCase(input) = "exit" \/ ToLowerCase(input) = "quit"

\* Variant of PushTurn: the history is rebuilt from the turn's two messages,
\* dropping the earlier turns.
PushTurnTruncating(history, user, assistant) ==
  <<Msg("user", <<user>>), Msg("assistant", assistant)>>

\* conversationHistory.push(user); conversationHistory.push(assistant)
PushTurn(history, user, assistant) ==
  history \o <<Msg("user", <<user>>), Msg("assistant", assistant)>>

\* Variant of PushFinal: line 190 left out.
PushFinalDropped(history, final) == history

\* Line 190
PushFinal(history, final) == Append(history, Msg("assistant", final))

\* Lines 139-143
FirstQuery(system, history, user) ==
  <<Msg("system", system)>> \o history \o <<Msg("user", <<user>>)>>

\* Variant of FollowUp: the system message left out of the follow-up list.
FollowUpWithoutSystem(system, history, output) ==
  history \o <<Msg("user", ToolOutputContent(output))>>

\* Lines 181-186
FollowUp(system, history, output) ==
  <<Msg("system", system)>> \o history \o <<Msg("user", ToolOutputContent(output))>>

\* main().catch: console.error('Error in main:', err); process.exit(1)
ErrorInMain(err) == [kind |-> "error", text |-> <<"Error in main:", err>>]

\* console.log(`\nAssistant: ${...}`) and `Assistant's interpretation: ...`
Printed(text) == [kind |-> "assistant", text |-> text]

\* -------------------------------------------------------------- operations
\* Variant of ReadInput: the prompt is also served while a call of the turn
\* in flight is still pending.
ReadInputAnytime(input) ==
  /\ pc \in {"AWAITING_INPUT", "DISCOVERING", "QUERYING_MODEL", "EXECUTING_TOOL",
             "RE_QUERYING_MODEL"}
  /\ IF IsExit(input)
     THEN /\ pc' = "ended"
          /\ userPrompt' = input
          /\ UNCHANGED <<conversationHistory, systemPrompt, messages, assistantResponse,
                         toolName, arguments_, toolOutput, followUpMessages,
                         answer, ghosts>>
     ELSE /\ turns < MaxTurns
          /\ pc' = "DISCOVERING"
          /\ userPrompt' = input
          /\ histBefore' = conversationHistory
          /\ calls' = <<"search">>
          /\ discovery' = NoCall
          /\ toolOutcome' = NoTool
          /\ gateway' = NoCall
          /\ answer' = NoAnswer
          /\ turns' = turns + 1
          /\ UNCHANGED <<conversationHistory, systemPrompt, messages, assistantResponse,
                         toolName, arguments_, toolOutput, followUpMessages,
                         nTool, nPlain, nAbsorbed>>

\* Lines 114-120: read a line; the sentinel leaves the loop, anything else
\* starts a turn with the call to search_tools.
ReadInput(input) ==
  /\ pc = "AWAITING_INPUT"
  /\ IF IsExit(input)
     THEN /\ pc' = "ended"
          /\ userPrompt' = input
          /\ UNCHANGED <<conversationHistory, systemPrompt, messages, assistantResponse,
                         toolName, arguments_, toolOutput, followUpMessages,
                         answer, ghosts>>
     ELSE /\ turns < MaxTurns
          /\ pc' = "DISCOVERING"
          /\ userPrompt' = input
          /\ histBefore' = conversationHistory
          /\ calls' = <<"search">>
          /\ discovery' = NoCall
          /\ toolOutcome' = NoTool
          /\ gateway' = NoCall
          /\ answer' = NoAnswer
          /\ turns' = turns + 1
          /\ UNCHANGED <<conversationHistory, systemPrompt, messages, assistantResponse,
                         toolName, arguments_, toolOutput, followUpMessages,
                         nTool, nPlain, nAbsorbed>>

\* Variant of SearchReturns: an empty result is treated as a failure.
SearchReturnsEmptyIsError(tools) ==
  /\ pc = "DISCOVERING"
  /\ discovery' = Resolved(tools)
  /\ IF tools = <<>>
     THEN /\ pc' = "crashed"
          /\ answer' = ErrorInMain("No relevant tools found.")
          /\ UNCHANGED <<systemPrompt, messages, calls>>
     ELSE /\ systemPrompt' = SystemPrompt(tools)
          /\ messages' = FirstQuery(SystemPrompt(tools), conversationHistory, userPrompt)
          /\ calls' = Append(calls, "complete")
          /\ pc' = "QUERYING_MODEL"
          /\ UNCHANGED answer
  /\ UNCHANGED <<conversationHistory, userPrompt, assistantResponse, toolName, arguments_,
                 toolOutput, followUpMessages, histBefore, toolOutcome, gateway,
                 turns, nTool, nPlain, nAbsorbed>>

\* Lines 120-146: search_tools resolved; compose the prompt and send the
\* first query.
SearchReturns(tools) ==
  /\ pc = "DISCOVERING"
  /\ discovery' = Resolved(tools)
  /\ systemPrompt' = SystemPrompt(tools)
  /\ messages' = FirstQuery(SystemPrompt(tools), conversationHistory, userPrompt)
  /\ calls' = Append(calls, "complete")
  /\ pc' = "QUERYING_MODEL"
  /\ UNCHANGED <<conversationHistory, userPrompt, assistantResponse, toolName, arguments_,
                 toolOutput, followUpMessages, answer, histBefore, toolOutcome, gateway,
                 turns, nTool, nPlain, nAbsorbed>>

\* Variant of SearchThrows: the rejection is swallowed and the turn goes on
\* with no tools.
SearchThrowsSwallowed(err) ==
  /\ pc = "DISCOVERING"
  /\ discovery' = Rejected(err)
  /\ systemPrompt' = SystemPrompt(<<>>)
  /\ messages' = FirstQuery(SystemPrompt(<<>>), conversationHistory, userPrompt)
  /\ calls' = Append(calls, "complete")
  /\ pc' = "QUERYING_MODEL"
  /\ UNCHANGED <<conversationHistory, userPrompt, assistantResponse, toolName, arguments_,
                 toolOutput, followUpMessages, answer, histBefore, toolOutcome, gateway,
                 turns, nTool, nPlain, nAbsorbed>>

\* Line 120 rejects: nothing in the loop catches it, so main rejects and the
\* process exits with code 1.
SearchThrows(err) ==
  /\ pc = "DISCOVERING"
  /\ discovery' = Rejected(err)
  /\ pc' = "crashed"
  /\ answer' = ErrorInMain(err)
  /\ UNCHANGED <<conversationHistory, locals, histBefore, calls, toolOutcome, gateway,
                 turns, nTool, nPlain, nAbsorbed>>

\* Lines 146-165 and 191-205: the first query resolved.
FirstReplyReturns(content) ==
  /\ pc = "QUERYING_MODEL"
  /\ gateway' = Resolved(content)
  /\ LET response == getOpenAIResponse(content)
         directive == Interpret(response)
     IN  IF directive.isDirective
         THEN /\ assistantResponse' = response
              /\ toolName' = directive.toolName
              /\ arguments_' = directive.arguments
              /\ calls' = Append(calls, "invoke")
              /\ pc' = "EXECUTING_TOOL"
              /\ UNCHANGED <<conversationHistory, userPrompt, systemPrompt, messages,
                             toolOutput, followUpMessages, answer, nPlain>>
         ELSE /\ answer' = Printed(response)
              /\ conversationHistory' = PushTurn(conversationHistory, userPrompt, response)
              /\ nPlain' = nPlain + 1
              /\ pc' = "AWAITING_INPUT"
              /\ OutOfScope
              /\ UNCHANGED calls
  /\ UNCHANGED <<histBefore, discovery, toolOutcome, turns, nTool, nAbsorbed>>

\* Line 146 rejects: outside the try of line 154, so main rejects.
FirstReplyThrows(err) ==
  /\ pc = "QUERYING_MODEL"
  /\ pc' = "crashed"
  /\ gateway' = Rejected(err)
  /\ answer' = ErrorInMain(err)
  /\ UNCHANGED <<conversationHistory, locals, histBefore, calls, discovery, toolOutcome,
                 turns, nTool, nPlain, nAbsorbed>>

\* Variant of SendFollowUp: the tool output message is pushed to the history
\* instead of living only in followUpMessages.
SendFollowUpPersisted(output) ==
  /\ toolOutput' = output
  /\ conversationHistory' = PushTurn(conversationHistory, userPrompt, assistantResponse)
                              \o <<Msg("user", ToolOutputContent(output))>>
  /\ followUpMessages' = <<Msg("system", systemPrompt)>>
                           \o PushTurn(conversationHistory, userPrompt, assistantResponse)
                           \o <<Msg("user", ToolOutputContent(output))>>
  /\ calls' = Append(calls, "complete")
  /\ pc' = "RE_QUERYING_MODEL"
  /\ UNCHANGED <<userPrompt, systemPrompt, messages, assistantResponse, toolName,
                 arguments_, answer, histBefore, discovery, gateway,
                 turns, nTool, nPlain, nAbsorbed>>

\* Lines 174-188 after toolOutput is known: record the turn so far and send
\* the re-query.
SendFollowUp(output) ==
  /\ toolOutput' = output
  /\ conversationHistory' = PushTurn(conversationHistory, userPrompt, assistantResponse)
  /\ followUpMessages' = FollowUp(systemPrompt,
                                  PushTurn(conversationHistory, userPrompt, assistantResponse),
                                  output)
  /\ calls' = Append(calls, "complete")
  /\ pc' = "RE_QUERYING_MODEL"
  /\ UNCHANGED <<userPrompt, systemPrompt, messages, assistantResponse, toolName,
                 arguments_, answer, histBefore, discovery, gateway,
                 turns, nTool, nPlain, nAbsorbed>>

\* Variant of ToolReturns: JSON.stringify outside the try, so its TypeError
\* rejects main.
ToolReturnsUncaught(value) ==
  /\ pc = "EXECUTING_TOOL"
  /\ LET str == JSONstringify(value)
     IN  IF str.threw
         THEN /\ toolOutcome' = [kind |-> "unserializable", reason |-> str.message, value |-> value]
              /\ pc' = "crashed"
              /\ answer' = ErrorInMain(str.message)
              /\ UNCHANGED <<conversationHistory, locals, histBefore, calls, discovery,
                             gateway, turns, nTool, nPlain, nAbsorbed>>
         ELSE /\ toolOutcome' = [kind |-> "ok", reason |-> "", value |-> value]
              /\ SendFollowUp(str.text)

\* Lines 165-172: call_tool resolved with a value; both JSON.stringify calls
\* are inside the try, so a value that cannot be serialized lands in the catch.
ToolReturns(value) ==
  /\ pc = "EXECUTING_TOOL"
  /\ LET str == JSONstringify(value)
     IN  IF str.threw
         THEN /\ toolOutcome' = [kind |-> "unserializable", reason |-> str.message, value |-> value]
              /\ SendFollowUp(ErrorMessage(toolName, str.message))
         ELSE /\ toolOutcome' = [kind |-> "ok", reason |-> "", value |-> value]
              /\ SendFollowUp(str.text)

\* Variant of ToolThrows: no try around call_tool, so the rejection rejects
\* main.
ToolThrowsUncaught(reason) ==
  /\ pc = "EXECUTING_TOOL"
  /\ toolOutcome' = [kind |-> "threw", reason |-> reason, value |-> NoValue]
  /\ pc' = "crashed"
  /\ answer' = ErrorInMain(reason)
  /\ UNCHANGED <<conversationHistory, locals, histBefore, calls, discovery, gateway,
                 turns, nTool, nPlain, nAbsorbed>>

\* Variant of ToolThrows: the rejected call is made again.
ToolThrowsRetried(reason) ==
  /\ pc = "EXECUTING_TOOL"
  /\ calls' = Append(calls, "invoke")
  /\ UNCHANGED <<pc, conversationHistory, locals, answer, histBefore, discovery,
                 toolOutcome, gateway, turns, nTool, nPlain, nAbsorbed>>

\* Lines 168-172: call_tool rejected.
ToolThrows(reason) ==
  /\ pc = "EXECUTING_TOOL"
  /\ toolOutcome' = [kind |-> "threw", reason |-> reason, value |-> NoValue]
  /\ SendFollowUp(ErrorMessage(toolName, reason))

\* Lines 188-190: the re-query resolved.
ReQueryReturns(content) ==
  /\ pc = "RE_QUERYING_MODEL"
  /\ gateway' = Resolved(content)
  /\ answer' = Printed(getOpenAIResponse(content))
  /\ conversationHistory' = PushFinal(conversationHistory, getOpenAIResponse(content))
  /\ nTool' = nTool + 1
  /\ pc' = "AWAITING_INPUT"
  /\ OutOfScope
  /\ UNCHANGED <<histBefore, calls, discovery, toolOutcome, turns, nPlain, nAbsorbed>>

\* Variant of ReQueryThrows: the re-query outside the try, so its rejection
\* rejects main.
ReQueryThrowsUncaught(err) ==
  /\ pc = "RE_QUERYING_MODEL"
  /\ gateway' = Rejected(err)
  /\ answer' = ErrorInMain(err)
  /\ pc' = "crashed"
  /\ UNCHANGED <<conversationHistory, locals, histBefore, calls, discovery, toolOutcome,
                 turns, nTool, nPlain, nAbsorbed>>

\* Line 188 rejects inside the try of line 154: the catch of lines 196-199
\* prints the first reply and pushes the user and assistant messages again.
ReQueryThrows(err) ==
  /\ pc = "RE_QUERYING_MODEL"
  /\ gateway' = Rejected(err)
  /\ answer' = Printed(assistantResponse)
  /\ conversationHistory' = PushTurn(conversationHistory, userPrompt, assistantResponse)
  /\ nAbsorbed' = nAbsorbed + 1
  /\ pc' = "AWAITING_INPUT"
  /\ OutOfScope
  /\ UNCHANGED <<histBefore, calls, discovery, toolOutcome, turns, nTool, nPlain>>

Next ==
  \/ \E input \in Inputs : ReadInput(input)
  \/ \E tools \in ToolLists : SearchReturns(tools)
  \/ \E err \in SearchErrors : SearchThrows(err)
  \/ \E content \in FirstContents : FirstReplyReturns(content)
  \/ \E err \in GatewayErrors : FirstReplyThrows(err)
  \/ \E value \in ToolValues : ToolReturns(value)
  \/ \E reason \in ToolErrors : ToolThrows(reason)
  \/ \E content \in FinalContents : ReQueryReturns(content)
  \/ \E err \in GatewayErrors : ReQueryThrows(err)

Spec == Init /\ [][Next]_vars

\* A pending search, gateway or tool call eventually resolves or rejects.
Resolve ==
  \/ \E tools \in ToolLists : SearchReturns(tools)
  \/ \E err \in SearchErrors : SearchThrows(err)
  \/ \E content \in FirstContents : FirstReplyReturns(content)
  \/ \E err \in GatewayErrors : FirstReplyThrows(err)
  \/ \E value \in ToolValues : ToolReturns(value)
  \/ \E reason \in ToolErrors : ToolThrows(reason)
  \/ \E content \in FinalContents : ReQueryReturns(content)
  \/ \E err \in GatewayErrors : ReQueryThrows(err)

FairSpec == Init /\ [][Next]_vars /\ WF_vars(Resolve)

\* The process is shut down (a signal, the terminal closing) while main is
\* suspended at an await of a turn: nothing of main runs any more, the
\* history array is as the turn left it.
InFlight == pc \in {"DISCOVERING", "QUERYING_MODEL", "EXECUTING_TOOL", "RE_QUERYING_MODEL"}

Abort ==
  /\ InFlight
  /\ pc' = "aborted"
  /\ UNCHANGED <<conversationHistory, locals, answer, ghosts>>

NextOrAbort == Next \/ Abort

AbortSpec == Init /\ [][NextOrAbort]_vars

\* ------------------------------------------- replies drawn piece by piece
EmptyArgsDirective == <<"{", "tool_name:", "'svc.echo'", ",", "arguments:", "{", "}", "}">>

FencedEmptyArgs == <<"FO">> \o EmptyArgsDirective \o <<"FC">>

FencedBroken == <<"FO", "{", "oops", "}", "FC">>

\* What a reply of the model is made of: prose, stray braces and fence
\* marks, JSON objects, code blocks.
Pieces == {<<"x">>, <<"{">>, <<"}">>, <<"FO">>, <<"FC">>,
           EmptyArgsDirective, FencedEmptyArgs, FencedBroken, NoArguments, LooseDirective}

RECURSIVE PieceTexts(_)
PieceTexts(n) ==
  IF n = 0 THEN {<<>>}
  ELSE PieceTexts(n - 1) \cup {t \o piece : t \in PieceTexts(n - 1), piece \in Pieces}

Texts == PieceTexts(MaxPieces)

\* One turn whose first reply is any text of Texts.
FirstReplyAnyText == \E text \in Texts : FirstReplyReturns(text)

NextText ==
  \/ turns = 0 /\ ReadInput("hello")
  \/ SearchReturns(<<"svc.echo">>)
  \/ FirstReplyAnyText
  \/ ToolReturns(EchoResult)
  \/ ReQueryReturns(PlainReply)

TextSpec == Init /\ [][NextText]_vars

TypeOK ==
  /\ pc \in {"AWAITING_INPUT", "DISCOVERING", "QUERYING_MODEL", "EXECUTING_TOOL",
             "RE_QUERYING_MODEL", "ended", "crashed", "aborted"}
  /\ turns \in 0..MaxTurns
  /\ nTool + nPlain + nAbsorbed <= turns

\* ------------------------------------------------------------------ claims
Last(seq) == seq[Len(seq)]

Range(seq) == {seq[i] : i \in 1..Len(seq)}

TurnOver == pc \in {"AWAITING_INPUT", "ended"}

FullToolTurn == <<"search", "complete", "invoke", "complete">>

\* C1: if a gateway call of a turn fails (first query or re-query), the
\* history after the failed turn equals the history before the turn began.
C1_GatewayFailureLeavesHistory ==
  gateway.state = "rejected" => conversationHistory = histBefore

\* C2: a completed tool-using turn appends exactly [user, assistant directive,
\* assistant final], a completed turn without directive appends exactly
\* [user, assistant]; so the history holds 3N + 2M messages after N tool-using
\* and M other completed turns.
C2_TurnsAppendThreeOrTwo ==
  (TurnOver /\ turns > 0) =>
    /\ Len(conversationHistory) = 3 * nTool + 2 * nPlain
    /\ Len(conversationHistory) - Len(histBefore) = (IF "invoke" \in Range(calls) THEN 3 ELSE 2)
    /\ \A i \in 1..Len(histBefore) : conversationHistory[i] = histBefore[i]
    /\ conversationHistory[Len(histBefore) + 1].role = "user"
    /\ \A i \in (Len(histBefore) + 2)..Len(conversationHistory) :
         conversationHistory[i].role = "assistant"

C4_HistoryHoldsOnlyRealMessages ==
  \A i \in 1..Len(conversationHistory) :
    LET m == conversationHistory[i]
    IN  \/ /\ m.role = "user"
           /\ \E input \in Inputs : ~IsExit(input) /\ m.content = <<input>>
        \/ /\ m.role = "assistant"
           /\ \E content \in FirstContents \cup FinalContents :
                m.content = (IF content = Null THEN <<>> ELSE content)

C4_Witness ==
  pc = "AWAITING_INPUT" /\ nTool = 1 /\ Len(conversationHistory) = 3 /\ toolOutcome.kind = "ok"

\* C5: a failing tool executor does not abort the turn: tool_output is an
\* error string holding the tool name and the failure reason, the re-query is
\* sent with that string in its last message, and the turn ends with the
\* re-query's reply as its answer.
C5_ToolFailureIsShownToTheModel ==
  toolOutcome.kind = "threw" =>
    /\ pc \in {"RE_QUERYING_MODEL", "AWAITING_INPUT", "ended"}
    /\ calls = FullToolTurn
    /\ pc = "RE_QUERYING_MODEL" =>
         /\ ToStr(toolName) \in Range(toolOutput)
         /\ toolOutcome.reason \in Range(toolOutput)
         /\ Last(followUpMessages).role = "user"
         /\ Last(followUpMessages).content = <<"Tool output: ">> \o toolOutput
    /\ (TurnOver /\ gateway.state = "resolved") =>
         /\ answer.kind = "assistant"
         /\ answer.text = (IF gateway.content = Null THEN <<>> ELSE gateway.content)
         /\ Last(conversationHistory) = Msg("assistant", answer.text)

C5_Witness ==
  pc = "AWAITING_INPUT" /\ toolOutcome.kind = "threw" /\ gateway = Resolved(PlainReply)

\* C6: every turn ends in AWAITING_INPUT or in a session end caused by the
\* caller's exit directive; a discovery or gateway failure never ends the
\* session.
C6_OnlyExitEndsTheSession == pc # "crashed"

\* C7: when search fails in a turn, the turn's answer is the error
\* description, the turn makes no gateway call and no tool invocation, and the
\* history is unchanged.
C7_DiscoveryFailure ==
  discovery.state = "rejected" =>
    /\ answer.kind = "error"
    /\ discovery.error \in Range(answer.text)
    /\ calls = <<"search">>
    /\ gateway = NoCall
    /\ toolOutcome = NoTool
    /\ messages = <<>> /\ followUpMessages = <<>>
    /\ conversationHistory = histBefore

C7_Witness == discovery.state = "rejected" /\ turns = 2 /\ Len(histBefore) = 3

\* C8: after a malformed model reply or a failing tool call the session comes
\* back to AWAITING_INPUT; neither ends the session.
C8_SessionSurvivesBadReplyAndToolFailure ==
  /\ (pc = "RE_QUERYING_MODEL" /\ toolOutcome.kind = "threw") ~> (pc = "AWAITING_INPUT")
  /\ [][(/\ pc = "QUERYING_MODEL"
         /\ gateway'.state = "resolved"
         /\ ~Interpret(IF gateway'.content = Null THEN <<>> ELSE gateway'.content).isDirective)
        => pc' = "AWAITING_INPUT"]_vars
  /\ [](toolOutcome.kind = "threw" => pc # "crashed")

C8_Witness ==
  pc = "AWAITING_INPUT" /\ toolOutcome.kind = "threw" /\ gateway.state = "rejected"

\* C9 as stated: empty content from the first query is turn-fatal, nothing is
\* appended to the history.
C9_EmptyContentIsTurnFatal ==
  (gateway = Resolved(Null) /\ calls = <<"search", "complete">>) =>
    conversationHistory = histBefore

\* C9 amended: empty content from the first query is taken as the empty
\* assistant text: no directive is found, the turn ends with the empty text as
\* its answer and appends [user utterance, assistant ''] to the history.
C9_EmptyContentIsAPlainReply ==
  (gateway = Resolved(Null) /\ calls = <<"search", "complete">>) =>
    /\ TurnOver
    /\ answer = [kind |-> "assistant", text |-> <<>>]
    /\ Len(conversationHistory) = Len(histBefore) + 2
    /\ \A i \in 1..Len(histBefore) : conversationHistory[i] = histBefore[i]
    /\ conversationHistory[Len(histBefore) + 1].role = "user"
    /\ Last(conversationHistory) = Msg("assistant", <<>>)

C9_Witness ==
  pc = "AWAITING_INPUT" /\ gateway = Resolved(Null) /\ calls = <<"search", "complete">>

\* C10 as stated: when the tool succeeds but its value cannot be serialized,
\* the turn is fatal: no re-query is sent, the error is the answer and the
\* history equals the history before the turn.
C10_SerializationFailureIsTurnFatal ==
  toolOutcome.kind = "unserializable" =>
    /\ calls = <<"search", "complete", "invoke">>
    /\ answer.kind = "error"
    /\ conversationHistory = histBefore

\* C10 amended: when the tool succeeds but its value cannot be serialized, the
\* turn is not aborted: tool_output is the error string holding the tool name
\* and the serialization error, the user utterance and the directive text are
\* appended to the history, and the re-query is sent with that string in its
\* last message.
C10_SerializationFailureIsShownToTheModel ==
  toolOutcome.kind = "unserializable" =>
    /\ pc \in {"RE_QUERYING_MODEL", "AWAITING_INPUT", "ended"}
    /\ calls = FullToolTurn
    /\ pc = "RE_QUERYING_MODEL" =>
         /\ ToStr(toolName) \in Range(toolOutput)
         /\ CircularMessage \in Range(toolOutput)
         /\ Last(followUpMessages) = Msg("user", <<"Tool output: ">> \o toolOutput)
         /\ conversationHistory =
              histBefore \o <<Msg("user", <<userPrompt>>), Msg("assistant", assistantResponse)>>
         /\ answer = NoAnswer

C10_Witness == pc = "RE_QUERYING_MODEL" /\ toolOutcome.kind = "unserializable"

\* C11: a turn aborted while in flight (in particular while the re-query is
\* pending) leaves the history equal to the history before the turn began.
C11_AbortLeavesHistory == pc = "aborted" => conversationHistory = histBefore

IsPrefix(short, long) ==
  /\ Len(short) <= Len(long)
  /\ \A i \in 1..Len(short) : short[i] = long[i]

\* C12: the history is empty at session start and is only ever extended: the
\* history before any step is a prefix of the history after it.
C12_HistoryOnlyGrows ==
  /\ conversationHistory = <<>>
  /\ [][IsPrefix(conversationHistory, conversationHistory')]_vars

C12_Witness == pc = "AWAITING_INPUT" /\ turns = 2 /\ Len(conversationHistory) = 6

\* The first reply of the turn has been received and handled, and nothing
\* after it has happened yet.
FirstReplyHandled ==
  /\ gateway.state = "resolved"
  /\ pc \in {"AWAITING_INPUT", "EXECUTING_TOOL"}
  /\ Len(calls) <= 3

\* Some substring of text is a JSON object with both fields.
ContainsDirectiveObject(text) ==
  \E i \in 1..Len(text) : \E j \in i..Len(text) :
    /\ text[i] = "{" /\ text[j] = "}"
    /\ LET p == JSONparse(SubText(text, i, j))
       IN  p.ok /\ HasKey(p.val, "tool_name:") /\ HasKey(p.val, "arguments:")

\* C13: a raw text holding no JSON object with both tool_name and arguments
\* (no braces, unbalanced braces, unparseable JSON, a field missing) yields no
\* directive and no error: it is handled as a plain reply, no tool is invoked.
C13_NoObjectNoDirective ==
  (FirstReplyHandled /\ ~ContainsDirectiveObject(gateway.content)) =>
    /\ pc = "AWAITING_INPUT"
    /\ calls = <<"search", "complete">>
    /\ toolOutcome.kind = "none"
    /\ answer = [kind |-> "assistant", text |-> gateway.content]
    /\ conversationHistory =
         histBefore \o <<Msg("user", <<"hello">>), Msg("assistant", gateway.content)>>

C13_Witness ==
  FirstReplyHandled /\ gateway.content = <<"x", "{">> \o NoArguments /\ nPlain = 1

\* text holds the code block ```json {directive} ``` at some position.
ContainsFencedDirective(text) ==
  \E i \in 1..Len(text) :
    /\ i + Len(FencedEmptyArgs) - 1 <= Len(text)
    /\ SubText(text, i, i + Len(FencedEmptyArgs) - 1) = FencedEmptyArgs

\* C14: a raw text holding a fenced JSON block with a well-formed directive is
\* interpreted as exactly that directive, whatever surrounds the block.
C14_FencedDirectiveIsFound ==
  (FirstReplyHandled /\ ContainsFencedDirective(gateway.content)) =>
    /\ pc = "EXECUTING_TOOL"
    /\ toolName = <<"str", "'svc.echo'">>
    /\ arguments_ = <<"obj", <<>>>>

\* The text main works with for a gateway content: content || ''.
TextOf(content) == IF content = Null THEN <<>> ELSE content

\* C16 as stated: when the catalog returns an empty list the turn proceeds,
\* any gateway reply is interpreted as no directive, no tool is invoked and the
\* answer is the raw gateway text.
C16_EmptyCatalogMeansNoDirective ==
  discovery = Resolved(<<>>) =>
    /\ "invoke" \notin Range(calls)
    /\ FirstReplyHandled => answer = [kind |-> "assistant", text |-> TextOf(gateway.content)]

\* C16 amended: when the catalog returns an empty list the turn proceeds with
\* the empty list embedded in the system message; a reply holding no JSON
\* object with both fields invokes no tool and is the turn's answer (a reply
\* holding a directive is executed all the same).
C16_EmptyCatalogProceeds ==
  discovery = Resolved(<<>>) =>
    /\ pc # "DISCOVERING"
    /\ pc = "crashed" => gateway.state = "rejected"
    /\ pc = "QUERYING_MODEL" =>
         messages[1] = Msg("system", <<"You are a helpful assistant...", "[", "]">>)
    /\ (FirstReplyHandled /\ ~ContainsDirectiveObject(TextOf(gateway.content))) =>
         /\ pc = "AWAITING_INPUT"
         /\ "invoke" \notin Range(calls)
         /\ answer = [kind |-> "assistant", text |-> TextOf(gateway.content)]

C16_Witness ==
  /\ discovery = Resolved(<<>>) /\ FirstReplyHandled
  /\ gateway = Resolved(NoArguments) /\ nPlain = 1

\* C17: when the first reply is a directive and the executor succeeds with
\* value v, the last message of the re-query is a user message whose content
\* is "Tool output: " followed by the serialization of v alone, and the turn's
\* answer is the reply of the second gateway call.
C17_ToolValueIsShownToTheModel ==
  (toolOutcome.kind = "ok" /\ toolOutcome.value[1] = "obj") =>
    /\ calls = FullToolTurn
    /\ pc = "RE_QUERYING_MODEL" =>
         LET last == Last(followUpMessages)
         IN  /\ last.role = "user"
             /\ Head(last.content) = "Tool output: "
             /\ JSONparse(Tail(last.content)) = [ok |-> TRUE, val |-> toolOutcome.value]
    /\ (TurnOver /\ gateway.state = "resolved") =>
         answer = [kind |-> "assistant", text |-> TextOf(gateway.content)]

C17_Witness ==
  pc = "ended" /\ toolOutcome.value = EchoResult /\ gateway = Resolved(PlainReply)

\* The system message of the turn in flight, from the turn's discovery result.
SystemOfTurn ==
  Msg("system", <<"You are a helpful assistant...", "[">> \o discovery.content \o <<"]">>)

\* C18: every list sent to the gateway is the system message composed in this
\* turn from this turn's discovery result, then the history as it stands, then
\* exactly one user message: the utterance in the first query (history =
\* pre-turn history), the synthetic tool-output message in the re-query
\* (history = pre-turn history plus the utterance and the directive text).
C18_ShapeOfEveryQuery ==
  /\ pc = "QUERYING_MODEL" =>
       /\ conversationHistory = histBefore
       /\ messages = <<SystemOfTurn>> \o histBefore \o <<Msg("user", <<userPrompt>>)>>
  /\ pc = "RE_QUERYING_MODEL" =>
       /\ conversationHistory =
            histBefore \o <<Msg("user", <<userPrompt>>), Msg("assistant", assistantResponse)>>
       /\ followUpMessages =
            <<SystemOfTurn>> \o conversationHistory
              \o <<Msg("user", <<"Tool output: ">> \o toolOutput)>>

C18_Witness ==
  /\ pc = "RE_QUERYING_MODEL" /\ turns = 2 /\ Len(histBefore) = 3
  /\ discovery = Resolved(<<"svc.echo">>) /\ Len(followUpMessages) = 7

\* C19: when the gateway fails during the re-query, the turn's answer is the
\* error description; the directive text of the first reply is never the
\* answer and the failure is not absorbed.
C19_ReQueryFailureIsSurfaced ==
  (gateway.state = "rejected" /\ calls = FullToolTurn) =>
    /\ answer.kind = "error"
    /\ gateway.error \in Range(answer.text)

\* C20: within a turn the calls go search, complete, then possibly invoke and
\* complete: one search before any gateway call, at most one invoke and only
\* after a directive was found, at most two gateway calls, the second only
\* after the invoke.
C20_OrderOfCalls ==
  /\ IsPrefix(calls, FullToolTurn)
  /\ turns > 0 => Len(calls) >= 1
  /\ pc = "DISCOVERING" => calls = <<"search">>
  /\ pc = "QUERYING_MODEL" => calls = <<"search", "complete">>
  /\ pc = "EXECUTING_TOOL" =>
       /\ calls = <<"search", "complete", "invoke">>
       /\ gateway.state = "resolved"
       /\ ContainsDirectiveObject(TextOf(gateway.content))
  /\ pc = "RE_QUERYING_MODEL" => calls = FullToolTurn

C20_Witness == pc = "AWAITING_INPUT" /\ turns = 2 /\ calls = FullToolTurn /\ nTool = 2

\* The first substring of text (leftmost start, then shortest) that is a JSON
\* object with both fields.
FirstDirectiveObject(text) ==
  LET Objects == {ij \in (1..Len(text)) \X (1..Len(text)) :
                    /\ ij[1] <= ij[2]
                    /\ text[ij[1]] = "{" /\ text[ij[2]] = "}"
                    /\ LET p == JSONparse(SubText(text, ij[1], ij[2]))
                       IN  p.ok /\ HasKey(p.val, "tool_name:") /\ HasKey(p.val, "arguments:")}
      i == Min({ij[1] : ij \in Objects})
      j == Min({ij[2] : ij \in {o \in Objects : o[1] = i}})
  IN  JSONparse(SubText(text, i, j)).val

\* C21: when the raw text holds several {...} substrings, interpretation
\* returns the first one that parses as JSON and has the directive shape: a
\* directive object followed by text with another "}" still yields that
\* directive, and a fenced block that fails to parse does not hide a later
\* bare directive.
C21_FirstParsingObjectWins ==
  (FirstReplyHandled /\ ContainsDirectiveObject(gateway.content)) =>
    /\ pc = "EXECUTING_TOOL"
    /\ toolName = GetKey(FirstDirectiveObject(gateway.content), "tool_name:")
    /\ arguments_ = GetKey(FirstDirectiveObject(gateway.content), "arguments:")

\* C22: a tool is invoked only when the parsed object has a tool_name that is
\* a string and an arguments that is an object; any other parsed object is
\* handled as a plain reply.
C22_DirectiveFieldsAreTyped ==
  pc = "EXECUTING_TOOL" => toolName[1] = "str" /\ arguments_[1] = "obj"

\* C23: turns are processed one at a time: no utterance is read and no turn
\* starts while a search, gateway or tool call of a turn is outstanding, and
\* the history is written only by the one turn in flight.
C23_OneTurnAtATime ==
  [][/\ turns' # turns =>
          pc = "AWAITING_INPUT" /\ pc' = "DISCOVERING" /\ turns' = turns + 1
     /\ InFlight => histBefore' = histBefore /\ userPrompt' \in {userPrompt, ""}
     /\ conversationHistory' # conversationHistory => InFlight /\ turns' = turns]_vars

C23_Witness ==
  turns = 2 /\ pc = "DISCOVERING" /\ userPrompt = "weather" /\ Len(histBefore) = 2

\* C24: when the input is "exit" or "quit" in any letter case the session
\* ends without a search, gateway or tool call and with the history
\* unchanged; any other input starts a turn.
C24_ExitSentinel ==
  [][pc = "AWAITING_INPUT" =>
       IF userPrompt' \in {"exit", "quit", "EXIT", "QUIT", "Exit", "Quit"}
       THEN /\ pc' = "ended"
            /\ UNCHANGED <<conversationHistory, calls, discovery, gateway, toolOutcome>>
       ELSE /\ pc' = "DISCOVERING"
            /\ calls' = <<"search">>
            /\ turns' = turns + 1]_vars

C24_Witness ==
  pc = "ended" /\ userPrompt = "QUIT" /\ turns = 1 /\ Len(conversationHistory) = 3

====
